---- MODULE Spec2Model ----
(***************************************************************************)
(* State-machine model of qcengine/programs/mp2d.py: the MP2D harness      *)
(* (MP2DHarness.get_version / compute), the orchestrator run_json, and the *)
(* plant -> execute -> harvest protocol (mp2d_plant, mp2d_coeff_formatter, *)
(* mp2d_harvest).                                                          *)
(*                                                                         *)
(* Conventions.                                                            *)
(*  - An optional value (a Python name that may be unbound, a dict key     *)
(*    that may be absent, None) is a sequence: << >> absent, << v >> set.  *)
(*  - A line of text is [indent, toks]: the number of leading blanks and   *)
(*    the whitespace-delimited tokens (what str.split() returns).  The     *)
(*    words of a marker are separated by single blanks.                    *)
(*  - Energies are counted in micro-Hartree, gradient entries in 0.01      *)
(*    Eh/a0, so that both are integers.                                    *)
(*  - A raised exception is [type, at]: the class name and the source line *)
(*    of mp2d.py that raises it.                                           *)
(***************************************************************************)
EXTENDS Integers, Sequences, FiniteSets, TLC

\* ------------------------------------------------------------------ bounds
\* Longest stdout (in lines) the process runner hands back.
MaxLines == 3
\* Largest molecule (atoms, real and ghost).
MaxAtoms == 2
\* Threads calling get_version, and calls per thread (version-cache model).
NumThreads == 2
MaxCalls == 2

\* ---------------------------------------------------------------- helpers
None == << >>
Some(v) == << v >>
IsSet(o) == Len(o) > 0
Get(o) == o[1]

Exc(type, at) == [type |-> type, at |-> at]

RECURSIVE SeqsUpTo(_, _)
SeqsUpTo(S, n) ==
    IF n = 0 THEN { << >> }
    ELSE LET shorter == SeqsUpTo(S, n - 1)
         IN shorter \cup { Append(s, x) : s \in { t \in shorter : Len(t) = n - 1 }, x \in S }

Prefix(s, n) == [i \in 1..n |-> s[i]]

\* ------------------------------------------------------ text of the stdout
\* What MP2D v1.1 prints: a banner naming the version, the energy line, the
\* geometry block's heading; and lines the scan has no use for.
VersionLine == [indent |-> 0, toks |-> <<"---", "MP2D", "Dispersion", "correction", "v1.1", "---">>]
EnergyLine == [indent |-> 3, toks |-> <<"MP2D", "dispersion", "correction", "Eh", "-0.001234">>]
\* The line of the specification's scenario: three more columns before the value.
EnergyLineCols == [indent |-> 3, toks |-> <<"MP2D", "dispersion", "correction", "Eh", "0", "0", "0", "-0.001234">>]
\* The label with nothing after it.
EnergyLineBare == [indent |-> 3, toks |-> <<"MP2D", "dispersion", "correction", "Eh">>]
\* The label followed by something that is no number.
EnergyLineText == [indent |-> 3, toks |-> <<"MP2D", "dispersion", "correction", "Eh", "n/a">>]
CoordsLine == [indent |-> 0, toks |-> <<"Atomic", "Coordinates", "in", "Angstroms">>]
OtherLine == [indent |-> 0, toks |-> <<"Normal", "termination">>]

StdoutLines == {VersionLine, EnergyLine, EnergyLineCols, EnergyLineBare, EnergyLineText, CoordsLine, OtherLine}
Stdouts == SeqsUpTo(StdoutLines, MaxLines)

\* str.startswith('v') on the tokens of the model.
StartsWithV(tok) == tok \in {"v1.1"}

\* re.search('MP2D Dispersion correction v', ln): anywhere in the line.
IsVersionLine(ln) ==
    \E i \in 1..Len(ln.toks) :
        /\ i + 3 <= Len(ln.toks)
        /\ ln.toks[i] = "MP2D"
        /\ ln.toks[i + 1] = "Dispersion"
        /\ ln.toks[i + 2] = "correction"
        /\ StartsWithV(ln.toks[i + 3])

\* re.match('   MP2D dispersion correction Eh', ln): anchored at the start.
IsEnergyLine(ln) ==
    /\ ln.indent = 3
    /\ Len(ln.toks) >= 4
    /\ Prefix(ln.toks, 4) = <<"MP2D", "dispersion", "correction", "Eh">>

\* re.match('Atomic Coordinates in Angstroms', ln)
IsCoordsLine(ln) ==
    /\ ln.indent = 0
    /\ Len(ln.toks) >= 4
    /\ Prefix(ln.toks, 4) = <<"Atomic", "Coordinates", "in", "Angstroms">>

\* str.lower() on the tokens of the model.
Lower(tok) ==
    CASE tok = "MP2D" -> "mp2d"
      [] tok = "Dispersion" -> "dispersion"
      [] tok = "DMP2" -> "dmp2"
      [] tok = "Eh" -> "eh"
      [] OTHER -> tok

\* A token made of dashes only: .replace('-', '') leaves nothing of it.
IsDashes(tok) == tok \in {"-", "--", "---"}

RECURSIVE DropDashes(_)
DropDashes(toks) ==
    IF toks = << >> THEN << >>
    ELSE IF IsDashes(Head(toks)) THEN DropDashes(Tail(toks))
    ELSE <<Head(toks)>> \o DropDashes(Tail(toks))

\* .replace('MP2D dispersion correction', ''): the first occurrence of the
\* three words, as spelt here (lower-case d), is cut out; the banner spells
\* it with a capital D and is left as it is.
RECURSIVE DropLabel(_)
DropLabel(toks) ==
    IF Len(toks) < 3 THEN toks
    ELSE IF Prefix(toks, 3) = <<"MP2D", "dispersion", "correction">>
         THEN DropLabel(SubSeq(toks, 4, Len(toks)))
         ELSE <<Head(toks)>> \o DropLabel(Tail(toks))

\* ln.replace('MP2D dispersion correction', '').replace('-', '').strip().lower()
VersionOfLine(ln) ==
    LET kept == DropDashes(DropLabel(ln.toks))
    IN [i \in 1..Len(kept) |-> Lower(kept[i])]

\* decimal.Decimal(str): the value in micro-Hartree, or no value (the
\* constructor raises InvalidOperation).
DecimalOf(tok) ==
    CASE tok = "-0.001234" -> Some(-1234)
      [] tok = "0" -> Some(0)
      [] OTHER -> None

\* ------------------------------------------------- mp2d_harvest: the scan
\* The names the scan loop may bind, and how the loop ended.
ScanStart == [version |-> None, ene |-> None, exhausted |-> FALSE, exc |-> None]

\* for ln in modulerec['stdout'].splitlines(): ... from line i on.  The loop
\* is exhausted when it runs off the end without a break.
RECURSIVE ScanFrom(_, _, _)
ScanFrom(lines, i, st) ==
    IF i > Len(lines) THEN [st EXCEPT !.exhausted = TRUE]
    ELSE LET ln == lines[i] IN
         IF IsVersionLine(ln)
         THEN ScanFrom(lines, i + 1, [st EXCEPT !.version = Some(VersionOfLine(ln))])
         ELSE IF IsEnergyLine(ln)
         THEN IF Len(ln.toks) < 5
              THEN [st EXCEPT !.exc = Some(Exc("IndexError", 242))]
              ELSE IF ~IsSet(DecimalOf(ln.toks[5]))
              THEN [st EXCEPT !.exc = Some(Exc("InvalidOperation", 242))]
              ELSE ScanFrom(lines, i + 1, [st EXCEPT !.ene = DecimalOf(ln.toks[5])])
         ELSE IF IsCoordsLine(ln)
         THEN st
         ELSE ScanFrom(lines, i + 1, st)

\* The else clause of the loop: it runs when the loop was exhausted.
ScanElseRaises(st, real_nat, driver) ==
    /\ st.exhausted
    /\ ~((real_nat = 1) /\ (driver = "gradient"))

ScanStdout(lines, real_nat, driver) ==
    LET st == ScanFrom(lines, 1, ScanStart)
    IN IF IsSet(st.exc) THEN st
       ELSE IF ScanElseRaises(st, real_nat, driver)
       THEN [st EXCEPT !.exc = Some(Exc("UnknownError", 247))]
       ELSE st

\* --------------------------------------------- mp2d_harvest: the gradient
\* The numbers a gradient file may hold, as written, and their values.
GradTokens == <<"0.01", "0.02", "0.03", "0.04", "0.05", "0.06", "0.07", "0.08",
                "0.09", "0.10", "0.11", "0.12", "0.13", "0.14", "0.15", "0.16">>

\* float(str) for the numbers of GradTokens, in units of 0.01.
FloatOf(tok) == CHOOSE i \in 1..Len(GradTokens) : GradTokens[i] = tok

\* np.sum(real)
RECURSIVE CountReal(_)
CountReal(real) ==
    IF real = << >> THEN 0
    ELSE (IF Head(real) THEN 1 ELSE 0) + CountReal(Tail(real))

\* np.fromstring(srealgrad, count=3 * real_nat, sep=' ').reshape((-1, 3))
\* for a file that holds at least 3 * real_nat numbers.
RealGrad(srealgrad, real_nat) ==
    [k \in 1..real_nat |->
        <<FloatOf(srealgrad[3 * k - 2]), FloatOf(srealgrad[3 * k - 1]), FloatOf(srealgrad[3 * k])>>]

\* np.argwhere(real).reshape((-1)): the indices of the real atoms, ascending.
RECURSIVE IRealFrom(_, _)
IRealFrom(real, i) ==
    IF i > Len(real) THEN << >>
    ELSE (IF real[i] THEN <<i>> ELSE << >>) \o IRealFrom(real, i + 1)

IReal(real) == IRealFrom(real, 1)

Zero3 == <<0, 0, 0>>

\* fullgrad = np.zeros((full_nat, 3)); fullgrad[ireal, :] = realgrad
\* Fault variant: the rows are put at the leading indices, not at ireal.
FullGradMut(real, realgrad) ==
    [i \in 1..Len(real) |-> IF i <= Len(realgrad) THEN realgrad[i] ELSE Zero3]

FullGrad(real, realgrad) ==
    LET ireal == IReal(real)
    IN [i \in 1..Len(real) |->
            IF \E k \in 1..Len(ireal) : ireal[k] = i
            THEN realgrad[CHOOSE k \in 1..Len(ireal) : ireal[k] = i]
            ELSE Zero3]

\* qcel.util.unnp(..., flat=True) on an array: ndarray.ravel().tolist().
RECURSIVE Ravel(_)
Ravel(rows) ==
    IF rows = << >> THEN << >> ELSE Head(rows) \o Ravel(Tail(rows))

\* ------------------------------------------------------- the job record
\* Labels of the quantity map: <<functional-dash prefix, name>>.
Label(name) == <<"", name>>
FctlLabel(qcvkey, name) == <<qcvkey, name>>

DCE == Label("DISPERSION CORRECTION ENERGY")
DCE2B == Label("2-BODY DISPERSION CORRECTION ENERGY")
DCG == Label("DISPERSION CORRECTION GRADIENT")
DCG2B == Label("2-BODY DISPERSION CORRECTION GRADIENT")
CurrentEnergy == Label("CURRENT ENERGY")
CurrentGradient == Label("CURRENT GRADIENT")

NoQcvars == [l \in {} |-> 0]

\* d[k] = v on a dict
DictSet(d, k, v) == [l \in (DOMAIN d) \cup {k} |-> IF l = k THEN v ELSE d[l]]

\* str.upper() on the functional-dash labels of the model.
Upper(s) ==
    CASE s = "mp2-dmp2" -> "MP2-DMP2"
      [] s = "b3lyp-d3bj" -> "B3LYP-D3BJ"
      [] OTHER -> s

\* The provenance a request arrives with.
CallerProvenance == [creator |-> "QCElemental", routine |-> "qcelemental.models.ResultInput", version |-> None]

\* provenance_stamp(sys._getframe().f_code.co_name + '.' + __name__) in run_json
OrchestratorProvenance == [creator |-> "QCEngine", routine |-> "run_json.qcengine.programs.mp2d", version |-> Some(<<"qcengine">>)]

\* prov = {creator: 'mp2d', routine: <name of mp2d_harvest>, version: version}
\* Fault variant: the harvester signs with the orchestrator's creator.
HarvestProvenanceMut(version) == [creator |-> "QCEngine", routine |-> "mp2d_harvest", version |-> Some(version)]

HarvestProvenance(version) == [creator |-> "mp2d", routine |-> "mp2d_harvest", version |-> Some(version)]

\* The request as compute hands it to run_json.
NewJobrec(driver, method, level_hint, real) ==
    [driver |-> driver, method |-> method, level_hint |-> level_hint, real |-> real,
     provenance |-> CallerProvenance, success |-> FALSE, error |-> None,
     info |-> None, qcvars |-> NoQcvars, stdout |-> None,
     properties |-> None, return_result |-> None]

\* -------------------------------------------------------------- mp2d_plant
\* dashparam.from_arrays: the level a method name implies ...
NameLevel(name) ==
    CASE name = "mp2-dmp2" -> Some("dmp2")
      [] name = "b3lyp-d3bj" -> Some("d3bj")
      [] OTHER -> None

\* ... and the coefficient table of a level, by default string conversion.
CoeffTable(level) ==
    CASE Lower(level) = "dmp2" ->
            Some([a1 |-> "0.944", a2 |-> "0.48", rcut |-> "0.72", w |-> "0.2", s8 |-> "1.187"])
      [] Lower(level) = "d3bj" ->
            Some([s6 |-> "1.0", a1 |-> "0.3981", s8 |-> "1.9889", a2 |-> "4.4211"])
      [] OTHER -> None

\* dashparam.from_arrays(name_hint, level_hint, ...): a level hint overrides
\* the level of the name; a level with no coefficient table is an error.
FromArrays(name_hint, level_hint) ==
    LET level == IF IsSet(level_hint) THEN level_hint ELSE NameLevel(name_hint)
    IN IF ~IsSet(level) \/ ~IsSet(CoeffTable(Get(level)))
       THEN [exc |-> Some(Exc("ConfigurationError", 160)), info |-> None]
       ELSE [exc |-> None,
             info |-> Some([dashlevel |-> Get(level),
                            dashparams |-> Get(CoeffTable(Get(level))),
                            fctldash |-> IF NameLevel(name_hint) = Some(Lower(Get(level)))
                                         THEN name_hint ELSE ""])]

\* f"--KEY={value}"
Arg(key, value) == [key |-> key, value |-> value]

\* Fault variant: the else branch does not raise.
Mp2dCoeffFormatterMut(dashlvl, dashcoeff) ==
    IF Lower(dashlvl) = "dmp2"
    THEN [exc |-> None,
          args |-> <<Arg("--TT_a1", dashcoeff.a1), Arg("--TT_a2", dashcoeff.a2),
                     Arg("--rcut", dashcoeff.rcut), Arg("--w", dashcoeff.w),
                     Arg("--s8", dashcoeff.s8)>>]
    ELSE [exc |-> None, args |-> << >>]

\* mp2d_coeff_formatter(dashlvl, dashcoeff)
Mp2dCoeffFormatter(dashlvl, dashcoeff) ==
    IF Lower(dashlvl) = "dmp2"
    THEN [exc |-> None,
          args |-> <<Arg("--TT_a1", dashcoeff.a1), Arg("--TT_a2", dashcoeff.a2),
                     Arg("--rcut", dashcoeff.rcut), Arg("--w", dashcoeff.w),
                     Arg("--s8", dashcoeff.s8)>>]
    ELSE [exc |-> Some(Exc("InputError", 319)), args |-> << >>]

\* command = ['mp2d', 'mp2d_geometry']; the flag for a gradient
CommandHead(driver) ==
    <<"mp2d", "mp2d_geometry">> \o (IF driver = "gradient" THEN <<"--gradient">> ELSE << >>)

\* The plan without its command: input file, requested output file,
\* environment.
PlanOf(real) ==
    [infiles |-> [mp2d_geometry |-> [dtype |-> "xyz", units |-> "Angstrom",
                                     ghost_format |-> "", natoms |-> Len(real)]],
     outfiles |-> <<"mp2d_gradient">>,
     env |-> {"HOME", "PATH"},
     command |-> << >>,
     stdout |-> << >>,
     gradfile |-> None]

\* mp2d_plant(jobrec): the record as plant leaves it, the plan (when plant
\* returns), plant's local command list as far as it was built, and the
\* exception (when plant raises).  Line 193 writes back to the record the
\* real-atom mask that from_schema read from the record's molecule: the
\* field real keeps its value.
Mp2dPlant(jobrec) ==
    LET res == FromArrays(jobrec.method, jobrec.level_hint)
        withinfo == [jobrec EXCEPT !.info = res.info]
        head == CommandHead(jobrec.driver)
        fmt == Mp2dCoeffFormatter(Get(res.info).dashlevel, Get(res.info).dashparams)
    IN IF IsSet(res.exc)
       THEN [jobrec |-> jobrec, modulerec |-> None, command |-> << >>, exc |-> res.exc]
       ELSE IF IsSet(fmt.exc)
       THEN [jobrec |-> withinfo, modulerec |-> None, command |-> head, exc |-> fmt.exc]
       ELSE [jobrec |-> withinfo,
             modulerec |-> Some([PlanOf(jobrec.real) EXCEPT !.command = head \o fmt.args]),
             command |-> head \o fmt.args, exc |-> None]

\* ------------------------------------------------------------ mp2d_harvest
\* text: stdout, the banner, every output file that is there, the variables.
HarvestText(modulerec) ==
    <<"stdout", "<<<  MP2D Results  >>>">>
    \o (IF IsSet(modulerec.gradfile) THEN <<"MP2D scratch file mp2d_gradient has been read.">> ELSE << >>)
    \o <<"print_variables">>

\* calcinfo: the quantity map, arrays flattened by unnp(flat=True).
Calcinfo(ene, qcvkey, isgrad, fullgrad) ==
    LET elabels == {DCE, DCE2B}
                   \cup (IF qcvkey # "" THEN {FctlLabel(qcvkey, "DISPERSION CORRECTION ENERGY")} ELSE {})
        glabels == IF isgrad
                   THEN {DCG, DCG2B}
                        \cup (IF qcvkey # "" THEN {FctlLabel(qcvkey, "DISPERSION CORRECTION GRADIENT")} ELSE {})
                   ELSE {}
    IN [l \in elabels \cup glabels |-> IF l \in elabels THEN ene ELSE Ravel(fullgrad)]

\* mp2d_harvest(jobrec, modulerec): the record as harvest leaves it and the
\* exception, when it raises.  A name the scan never bound is unbound where
\* it is read: ene at line 265, version at line 287 (after lines 281-282
\* have written the text and the quantity map).
Mp2dHarvest(jobrec, modulerec) ==
    LET real == jobrec.real
        real_nat == CountReal(real)
        isgrad == jobrec.driver = "gradient"
        scan == ScanStdout(modulerec.stdout, real_nat, jobrec.driver)
        realgrad == IF IsSet(modulerec.gradfile)
                    THEN Some(RealGrad(Get(modulerec.gradfile), real_nat))
                    ELSE None
        fullgrad == IF isgrad THEN FullGrad(real, Get(realgrad)) ELSE << >>
        qcvkey == Upper(Get(jobrec.info).fctldash)
        written == [jobrec EXCEPT !.stdout = Some(HarvestText(modulerec)),
                                  !.qcvars = Calcinfo(Get(scan.ene), qcvkey, isgrad, fullgrad)]
    IN IF IsSet(scan.exc)
       THEN [jobrec |-> jobrec, exc |-> scan.exc]
       ELSE IF isgrad /\ ~IsSet(realgrad)
       THEN [jobrec |-> jobrec, exc |-> Some(Exc("UnknownError", 260))]
       ELSE IF ~IsSet(scan.ene)
       THEN [jobrec |-> jobrec, exc |-> Some(Exc("UnboundLocalError", 265))]
       ELSE IF ~IsSet(scan.version)
       THEN [jobrec |-> written, exc |-> Some(Exc("UnboundLocalError", 287))]
       ELSE [jobrec |-> [written EXCEPT !.provenance = HarvestProvenance(Get(scan.version))],
             exc |-> None]

\* ------------------------------------------------------------- run_json
\* mtd.startswith('mp2d-') and mtd[5:] on the method names of the model.
HasEngineHint(mtd) == mtd \in {"mp2d-mp2-dmp2"}

StripEngineHint(mtd) ==
    CASE mtd = "mp2d-mp2-dmp2" -> "mp2-dmp2"
      [] OTHER -> mtd

\* DriverEnum.derivative_int()
DerivativeInt(driver) ==
    CASE driver = "energy" -> 0
      [] driver = "gradient" -> 1
      [] driver = "hessian" -> 2

\* Lines 92-97: the stamp, then the engine hint is stripped.
RunJsonBegin(rec) ==
    [rec EXCEPT !.provenance = OrchestratorProvenance,
                !.method = IF HasEngineHint(rec.method) THEN StripEngineHint(rec.method) ELSE rec.method]

\* Line 99: the drivers run_json turns away.
\* Fault variant: the comparison is off by one.
DriverRefusedMut(driver) == DerivativeInt(driver) > 2

DriverRefused(driver) == DerivativeInt(driver) > 1

\* Lines 100-104.
RunJsonRefuse(rec) ==
    [rec EXCEPT !.success = FALSE,
                !.error = Some([error_type |-> "input_error",
                                error_message |-> <<"MP2D produces max gradient, not {jobrec['driver']}">>])]

\* traceback.format_exception(*sys.exc_info()), joined.
TracebackText(e) == <<"Traceback (most recent call last):", e.type, e.at>>

\* Lines 110-114: the handler's record of the exception.
\* Fault variant: the class name of the exception is not looked up.
RunJsonErrorMut(rec, e) ==
    [rec EXCEPT !.success = FALSE,
                !.error = Some([error_type |-> "UnknownError",
                                error_message |-> TracebackText(e)])]

RunJsonError(rec, e) ==
    [rec EXCEPT !.success = FALSE,
                !.error = Some([error_type |-> e.type,
                                error_message |-> TracebackText(e)])]

\* Lines 117-130: the result is assembled.
\* Fault variant: the energy driver returns a constant.
RunJsonFinishMut(rec) ==
    LET ene == rec.qcvars[DCE]
        grad == rec.qcvars[DCG]
        base == [rec EXCEPT !.success = TRUE,
                            !.qcvars = DictSet(rec.qcvars, CurrentEnergy, ene),
                            !.properties = Some([return_energy |-> ene])]
    IN IF rec.driver = "energy"
       THEN [base EXCEPT !.return_result = Some(0)]
       ELSE IF rec.driver = "gradient"
       THEN [base EXCEPT !.qcvars = DictSet(base.qcvars, CurrentGradient, grad),
                         !.return_result = Some(grad)]
       ELSE base

RunJsonFinish(rec) ==
    LET ene == rec.qcvars[DCE]
        grad == rec.qcvars[DCG]
        base == [rec EXCEPT !.success = TRUE,
                            !.qcvars = DictSet(rec.qcvars, CurrentEnergy, ene),
                            !.properties = Some([return_energy |-> ene])]
    IN IF rec.driver = "energy"
       THEN [base EXCEPT !.return_result = Some(ene)]
       ELSE IF rec.driver = "gradient"
       THEN [base EXCEPT !.qcvars = DictSet(base.qcvars, CurrentGradient, grad),
                         !.return_result = Some(grad)]
       ELSE base

\* ------------------------------------------------- MP2DHarness.get_version
\* Where which('mp2d') may find the program, and what each prints for
\* --version.
Paths == {"/opt/new/bin/mp2d", "/opt/old/bin/mp2d"}

VersionStdout(path) ==
    CASE path = "/opt/new/bin/mp2d" -> "1.1 "
      [] path = "/opt/old/bin/mp2d" -> "1.0 "

\* safe_version(proc.stdout.decode('utf-8').strip())
SafeVersion(out) ==
    CASE out = "1.1 " -> "1.1"
      [] out = "1.0 " -> "1.0"
      [] OTHER -> "0"

\* parse_version(v): the release numbers.
ParseVersion(v) ==
    CASE v = "1.1" -> <<1, 1>>
      [] v = "1.0" -> <<1, 0>>
      [] OTHER -> <<0, 0>>

\* parse_version(a) >= parse_version(b)
VersionAtLeast(a, b) ==
    LET x == ParseVersion(a)
        y == ParseVersion(b)
    IN x[1] > y[1] \/ (x[1] = y[1] /\ x[2] >= y[2])

\* The minimum compute asks for (line 66).
MinVersion == "1.1"

EmptyCache == [p \in Paths |-> None]

\* Line 52: which_prog not in self.version_cache
\* Fault variant: the cache is never consulted.
CacheMissMut(cache, which_prog) == TRUE

CacheMiss(cache, which_prog) == ~IsSet(cache[which_prog])

\* Line 57: self.version_cache[which_prog] = safe_version(...)
CacheStore(cache, which_prog, out) ==
    [cache EXCEPT ![which_prog] = Some(SafeVersion(out))]

\* get_version() run to its end by one caller: the cache it leaves, how
\* often it ran the program, and the version it returns.
GetVersion(cache, which_prog) ==
    LET miss == CacheMiss(cache, which_prog)
        after == IF miss THEN CacheStore(cache, which_prog, VersionStdout(which_prog)) ELSE cache
    IN [cache |-> after, ran |-> IF miss THEN 1 ELSE 0, value |-> Get(after[which_prog])]

\* ------------------------------------------------------------------ state
VARIABLES
    pc,             \* where the one compute call stands
    jobrec,         \* the job record run_json works on
    modulerec,      \* the plan, then the plan with the process's output
    command,        \* mp2d_plant's local command list, as far as built
    exc,            \* the exception on its way to the caller
    ret,            \* what compute returned
    env,            \* the machine: is mp2d installed, and where
    version_cache,  \* MP2DHarness.version_cache, shared by all instances
    runs,           \* how often the program was run: --version, and on a plan
    log,            \* the phases of the call, in the order they happened
    th,             \* the get_version calls of each thread
    returned        \* paths for which some get_version call has returned

vars == <<pc, jobrec, modulerec, command, exc, ret, env, version_cache, runs, log, th, returned>>
jobvars == <<pc, jobrec, modulerec, command, exc, ret, env, runs, log>>
thvars == <<th, returned>>

Threads == 1..NumThreads

IdleThread == [pc |-> "idle", path |-> None, proc |-> None, calls |-> 0,
               miss |-> FALSE, ran |-> FALSE, after |-> FALSE, ret |-> None]

\* ----------------------------------------------------------------- inputs
Drivers == {"energy", "gradient", "hessian"}
Methods == {"mp2d-mp2-dmp2", "mp2-dmp2", "b3lyp-d3bj"}
LevelHints == {None, Some("DMP2"), Some("dx")}

\* The real-atom masks: one flag per atom, at least one atom real.
Masks == { m \in SeqsUpTo(BOOLEAN, MaxAtoms) : CountReal(m) >= 1 }

Envs == [installed : BOOLEAN, path : Paths]

\* What the gradient file may hold after a run with real_nat real atoms:
\* nothing (no file), a row of three numbers per real atom, or that and more.
\* (MP2D writes one row per real atom; a file with fewer numbers is outside
\* the model.)
GradFiles(real_nat) ==
    {None, Some(Prefix(GradTokens, 3 * real_nat)), Some(Prefix(GradTokens, 3 * real_nat + 1))}

Init ==
    /\ pc = "compute"
    /\ jobrec \in { NewJobrec(d, m, h, r) : d \in Drivers, m \in Methods, h \in LevelHints, r \in Masks }
    /\ modulerec = None
    /\ command = << >>
    /\ exc = None
    /\ ret = None
    /\ env \in Envs
    /\ version_cache = EmptyCache
    /\ runs = [version |-> 0, plan |-> 0]
    /\ log = << >>
    /\ th = [t \in Threads |-> IdleThread]
    /\ returned = {}

\* --------------------------------------------------- MP2DHarness.compute
\* Line 64: self.found(raise_error=True)
ComputeFound ==
    /\ pc = "compute"
    /\ IF env.installed
       THEN /\ pc' = "new_enough"
            /\ exc' = exc
       ELSE /\ pc' = "raised"
            /\ exc' = Some(Exc("ModuleNotFoundError", 64))
    /\ UNCHANGED <<jobrec, modulerec, command, ret, env, version_cache, runs, log, thvars>>

\* Lines 66-67: is_program_new_enough('mp2d', '1.1') asks get_version and
\* compares; the message of the ResourceError asks get_version again.
ComputeNewEnough ==
    /\ pc = "new_enough"
    /\ LET gv == GetVersion(version_cache, env.path)
           again == GetVersion(gv.cache, env.path)
       IN IF VersionAtLeast(gv.value, MinVersion)
          THEN /\ pc' = "setup"
               /\ exc' = exc
               /\ version_cache' = gv.cache
               /\ runs' = [runs EXCEPT !.version = @ + gv.ran]
          ELSE /\ pc' = "raised"
               /\ exc' = Some(Exc("ResourceError", 67))
               /\ version_cache' = again.cache
               /\ runs' = [runs EXCEPT !.version = @ + gv.ran + again.ran]
    /\ log' = Append(log, "version")
    /\ UNCHANGED <<jobrec, modulerec, command, ret, env, thvars>>

\* Lines 70-73: the copy of the request, success = False, run_json is called.
ComputeSetup ==
    /\ pc = "setup"
    /\ jobrec' = [jobrec EXCEPT !.success = FALSE]
    /\ pc' = "run_json"
    /\ UNCHANGED <<modulerec, command, exc, ret, env, version_cache, runs, log, thvars>>

\* Lines 75-78: run_json returned.
ComputeReturn ==
    /\ pc = "result"
    /\ ret' = IF jobrec.success
              THEN Some([kind |-> "Result", data |-> jobrec])
              ELSE Some([kind |-> "FailedOperation", data |-> jobrec])
    /\ pc' = "returned"
    /\ UNCHANGED <<jobrec, modulerec, command, exc, env, version_cache, runs, log, thvars>>

\* --------------------------------------------------------------- run_json
\* Lines 92-97.
RunJsonStamp ==
    /\ pc = "run_json"
    /\ jobrec' = RunJsonBegin(jobrec)
    /\ log' = Append(log, "stamp")
    /\ pc' = "driver_check"
    /\ UNCHANGED <<modulerec, command, exc, ret, env, version_cache, runs, thvars>>

\* Lines 99-105.
RunJsonDriverCheck ==
    /\ pc = "driver_check"
    /\ IF DriverRefused(jobrec.driver)
       THEN /\ jobrec' = RunJsonRefuse(jobrec)
            /\ exc' = Some(Exc("InputError", 105))
            /\ pc' = "raised"
       ELSE /\ jobrec' = jobrec
            /\ exc' = exc
            /\ pc' = "plant"
    /\ UNCHANGED <<modulerec, command, ret, env, version_cache, runs, log, thvars>>

\* Line 108, mp2d_driver -> module_driver: plant.
Plant ==
    /\ pc = "plant"
    /\ LET res == Mp2dPlant(jobrec)
       IN /\ jobrec' = res.jobrec
          /\ modulerec' = res.modulerec
          /\ command' = res.command
          /\ exc' = res.exc
          /\ pc' = IF IsSet(res.exc) THEN "except" ELSE "execute"
    /\ log' = Append(log, "plant")
    /\ UNCHANGED <<ret, env, version_cache, runs, thvars>>

\* module_driver: the process runner runs the plan's command and hands back
\* stdout and the output file, or fails.
Execute ==
    /\ pc = "execute"
    /\ \/ \E out \in Stdouts, gf \in GradFiles(CountReal(jobrec.real)) :
            /\ modulerec' = Some([Get(modulerec) EXCEPT !.stdout = out, !.gradfile = gf])
            /\ exc' = exc
            /\ pc' = "harvest"
       \/ /\ modulerec' = modulerec
          /\ exc' = Some(Exc("UnknownError", 138))
          /\ pc' = "except"
    /\ runs' = [runs EXCEPT !.plan = @ + 1]
    /\ log' = Append(log, "execute")
    /\ UNCHANGED <<jobrec, command, ret, env, version_cache, thvars>>

\* module_driver: harvest.
Harvest ==
    /\ pc = "harvest"
    /\ LET res == Mp2dHarvest(jobrec, Get(modulerec))
       IN /\ jobrec' = res.jobrec
          /\ exc' = res.exc
          /\ pc' = IF IsSet(res.exc) THEN "except" ELSE "finish"
    /\ log' = Append(log, "harvest")
    /\ UNCHANGED <<modulerec, command, ret, env, version_cache, runs, thvars>>

\* Lines 109-115: except Exception as exc: ... raise exc
RunJsonExcept ==
    /\ pc = "except"
    /\ jobrec' = RunJsonError(jobrec, Get(exc))
    /\ pc' = "raised"
    /\ UNCHANGED <<modulerec, command, exc, ret, env, version_cache, runs, log, thvars>>

\* Lines 117-132.
RunJsonReturn ==
    /\ pc = "finish"
    /\ jobrec' = RunJsonFinish(jobrec)
    /\ pc' = "result"
    /\ UNCHANGED <<modulerec, command, exc, ret, env, version_cache, runs, log, thvars>>

Next ==
    \/ ComputeFound
    \/ ComputeNewEnough
    \/ ComputeSetup
    \/ RunJsonStamp
    \/ RunJsonDriverCheck
    \/ Plant
    \/ Execute
    \/ Harvest
    \/ RunJsonExcept
    \/ RunJsonReturn
    \/ ComputeReturn

Spec == Init /\ [][Next]_vars

\* ---------------------------- get_version under concurrent callers (48-59)
\* Lines 49-51: found(raise_error=True), which_prog = which('mp2d').
GVStart(t) ==
    /\ th[t].pc = "idle"
    /\ th[t].calls < MaxCalls
    /\ \E p \in Paths :
         th' = [th EXCEPT ![t] = [@ EXCEPT !.pc = "check", !.path = Some(p), !.proc = None,
                                           !.miss = FALSE, !.ran = FALSE,
                                           !.after = (p \in returned), !.ret = None]]
    /\ UNCHANGED <<jobvars, version_cache, returned>>

\* Line 52: if which_prog not in self.version_cache
GVCheck(t) ==
    /\ th[t].pc = "check"
    /\ IF CacheMiss(version_cache, Get(th[t].path))
       THEN th' = [th EXCEPT ![t] = [@ EXCEPT !.pc = "run", !.miss = TRUE]]
       ELSE th' = [th EXCEPT ![t] = [@ EXCEPT !.pc = "return"]]
    /\ UNCHANGED <<jobvars, version_cache, returned>>

\* Lines 54-56: subprocess.run([which_prog, '--version'], stdout=PIPE)
GVRun(t) ==
    /\ th[t].pc = "run"
    /\ th' = [th EXCEPT ![t] = [@ EXCEPT !.pc = "store", !.ran = TRUE,
                                         !.proc = Some(VersionStdout(Get(th[t].path)))]]
    /\ UNCHANGED <<jobvars, version_cache, returned>>

\* Line 57: the entry is written.
GVStore(t) ==
    /\ th[t].pc = "store"
    /\ version_cache' = CacheStore(version_cache, Get(th[t].path), Get(th[t].proc))
    /\ th' = [th EXCEPT ![t] = [@ EXCEPT !.pc = "return"]]
    /\ UNCHANGED <<jobvars, returned>>

\* Line 59: return self.version_cache[which_prog]
GVReturn(t) ==
    /\ th[t].pc = "return"
    /\ th' = [th EXCEPT ![t] = [@ EXCEPT !.pc = "idle", !.calls = @ + 1,
                                         !.ret = Some([path |-> Get(th[t].path),
                                                       value |-> Get(version_cache[Get(th[t].path)])])]]
    /\ returned' = returned \cup {Get(th[t].path)}
    /\ UNCHANGED <<jobvars, version_cache>>

\* A process in which only get_version is called.
InitCache ==
    /\ pc = "idle"
    /\ jobrec = NewJobrec("energy", "mp2-dmp2", None, <<TRUE>>)
    /\ modulerec = None
    /\ command = << >>
    /\ exc = None
    /\ ret = None
    /\ env = [installed |-> TRUE, path |-> "/opt/new/bin/mp2d"]
    /\ version_cache = EmptyCache
    /\ runs = [version |-> 0, plan |-> 0]
    /\ log = << >>
    /\ th = [t \in Threads |-> IdleThread]
    /\ returned = {}

NextCache ==
    \E t \in Threads :
        \/ GVStart(t)
        \/ GVCheck(t)
        \/ GVRun(t)
        \/ GVStore(t)
        \/ GVReturn(t)

SpecCache == InitCache /\ [][NextCache]_vars

\* ====================================================== the properties
InLog(e) == \E i \in 1..Len(log) : log[i] = e

\* Harvest has just acted (it returned or raised) and nothing followed yet.
AfterHarvest == pc \in {"except", "finish"} /\ log # << >> /\ log[Len(log)] = "harvest"

\* run_json returned normally.
Succeeded == pc \in {"result", "returned"}

Out == Get(modulerec).stdout
GradFile == Get(modulerec).gradfile

\* The recognized degenerate case: one real atom, driver gradient.
Degenerate == CountReal(jobrec.real) = 1 /\ jobrec.driver = "gradient"

RaisedAt(line) == IsSet(exc) /\ Get(exc).at = line

\* An energy line whose 5th token is a decimal number.
GoodEnergyLine(ln) == IsEnergyLine(ln) /\ Len(ln.toks) >= 5 /\ IsSet(DecimalOf(ln.toks[5]))

HasEnergyLine(out) == \E i \in 1..Len(out) : IsEnergyLine(out[i])
HasCoordsLine(out) == \E i \in 1..Len(out) : IsCoordsLine(out[i])

\* The line that ends the scan: the first atomic-coordinates line, or the
\* end of stdout.
ScanEnd(out) ==
    IF HasCoordsLine(out)
    THEN CHOOSE i \in 1..Len(out) : IsCoordsLine(out[i]) /\ \A j \in 1..(i - 1) : ~IsCoordsLine(out[j])
    ELSE Len(out) + 1

\* The energy the scan reads: that of the last energy line before the scan
\* ends.
EnergyRead(out) ==
    LET k == CHOOSE i \in 1..(ScanEnd(out) - 1) :
                 /\ IsEnergyLine(out[i])
                 /\ \A j \in (i + 1)..(ScanEnd(out) - 1) : ~IsEnergyLine(out[j])
    IN Get(DecimalOf(out[k].toks[5]))

\* Every energy line of stdout is well formed, and the scan meets one.
EnergyFound(out) ==
    /\ \A i \in 1..Len(out) : IsEnergyLine(out[i]) => GoodEnergyLine(out[i])
    /\ \E i \in 1..(ScanEnd(out) - 1) : IsEnergyLine(out[i])

\* C1: in harvest, for a request that is not the degenerate case, a stdout
\* whose energy lines are well formed and a gradient file that is there when
\* the driver asks for one: if the scan meets an energy line it does not
\* fail, the energy harvest stores is the 5th token of that line, and
\* harvest fails for want of the energy (the fatal error of line 247, or the
\* read of the unbound energy at line 265) exactly when the scan ended
\* without having found an energy line.
C1_ScanErrorIffNoEnergy ==
    (AfterHarvest /\ ~Degenerate
        /\ (\A i \in 1..Len(Out) : IsEnergyLine(Out[i]) => GoodEnergyLine(Out[i]))
        /\ (jobrec.driver = "gradient" => IsSet(GradFile)))
    => /\ EnergyFound(Out) => ~RaisedAt(247)
       /\ (RaisedAt(247) \/ RaisedAt(265)) <=> ~EnergyFound(Out)
       /\ (pc = "finish" => jobrec.qcvars[DCE] = EnergyRead(Out))

\* C2: for one real atom and driver gradient, with no energy line in
\* stdout, harvest does not fail for want of the energy: neither the
\* result-parsing error of the scan (line 247) nor the read of the energy
\* the scan never bound (line 265) ends it.
C2_DegenerateNoFailure ==
    (AfterHarvest /\ Degenerate /\ ~HasEnergyLine(Out))
    => ~(RaisedAt(247) \/ RaisedAt(265))

\* The elements of the flat list that belong to atom i (1-based).
Row(flat, i) == <<flat[3 * i - 2], flat[3 * i - 1], flat[3 * i]>>

\* How many real atoms there are up to atom i.
RealRank(real, i) == Cardinality({ j \in 1..i : real[j] })

\* The k-th row of three numbers of the gradient file.
FileRow(file, k) == <<FloatOf(file[3 * k - 2]), FloatOf(file[3 * k - 1]), FloatOf(file[3 * k])>>

\* C3 as stated: for every successful request with driver gradient the
\* returned gradient (return_result, CURRENT GRADIENT, DISPERSION CORRECTION
\* GRADIENT) has shape (N, 3): N rows, the rows of ghost atoms zero and the
\* rows of real atoms those of the gradient file, in order.
C3_GradientShapeN3 ==
    (Succeeded /\ jobrec.driver = "gradient")
    => \A g \in {Get(jobrec.return_result), jobrec.qcvars[CurrentGradient], jobrec.qcvars[DCG]} :
          /\ Len(g) = Len(jobrec.real)
          /\ \A i \in 1..Len(jobrec.real) :
                g[i] = IF jobrec.real[i]
                       THEN FileRow(Get(GradFile), RealRank(jobrec.real, i))
                       ELSE Zero3

\* C3 as amended: for every successful request with driver gradient the
\* returned gradient (return_result, CURRENT GRADIENT, DISPERSION CORRECTION
\* GRADIENT) is the (N, 3) array flattened row by row into a list of 3 * N
\* numbers: the three entries of every ghost atom are exactly zero, and the
\* three entries of the k-th real atom are the k-th row of the gradient file
\* (its first 3 * R numbers, three per row).
C3_GradientScatterFlat ==
    (Succeeded /\ jobrec.driver = "gradient")
    => \A g \in {Get(jobrec.return_result), jobrec.qcvars[CurrentGradient], jobrec.qcvars[DCG]} :
          /\ Len(g) = 3 * Len(jobrec.real)
          /\ \A i \in 1..Len(jobrec.real) :
                Row(g, i) = IF jobrec.real[i]
                            THEN FileRow(Get(GradFile), RealRank(jobrec.real, i))
                            ELSE Zero3

\* A gradient came back for a molecule whose first atom is a ghost, from a
\* file that holds more than 3 * R numbers.
C3_Witness ==
    /\ Succeeded
    /\ jobrec.driver = "gradient"
    /\ jobrec.real = <<FALSE, TRUE>>
    /\ Len(Get(GradFile)) = 4
    /\ Get(jobrec.return_result) = <<0, 0, 0, 1, 2, 3>>

ResolvedOther == IsSet(jobrec.info) /\ Lower(Get(jobrec.info).dashlevel) # "dmp2"

\* C5 as stated: once plant has acted on a resolved level other than dmp2,
\* it has failed with ConfigurationError, no part of the command was built
\* and the program was not run.
C5_LevelConfigurationError ==
    (InLog("plant") /\ ResolvedOther)
    => /\ IsSet(exc) /\ Get(exc).type = "ConfigurationError"
       /\ command = << >>
       /\ runs.plan = 0

\* C5 as amended: once plant has acted on a resolved level other than dmp2
\* (compared case-insensitively), it has failed with InputError, raised by
\* mp2d_coeff_formatter; plant had by then put the program name, the
\* geometry file name and, for a gradient, the gradient flag into its local
\* command list, but no plan and no command came out of plant, and the
\* program is not run.
C5_LevelInputError ==
    (InLog("plant") /\ ResolvedOther)
    => /\ exc = Some(Exc("InputError", 319))
       /\ command = <<"mp2d", "mp2d_geometry">>
                    \o (IF jobrec.driver = "gradient" THEN <<"--gradient">> ELSE << >>)
       /\ modulerec = None
       /\ runs.plan = 0 /\ ~InLog("execute") /\ ~InLog("harvest")
       /\ pc \in {"except", "raised"}

\* Plant has failed on the level d3bj, for a gradient.
C5_Witness ==
    /\ InLog("plant")
    /\ IsSet(jobrec.info) /\ Get(jobrec.info).dashlevel = "d3bj"
    /\ jobrec.driver = "gradient"
    /\ pc = "raised"

\* Where plant, the process runner and harvest raise.
DriverLines == {160, 319, 138, 242, 247, 260, 265, 287}

\* C6: an exception raised inside mp2d_driver is never swallowed: while it
\* is on its way neither run_json nor compute has returned, and once
\* run_json has handled it the record says success = false, error_type is
\* the exception's class name, error_message its traceback, and the same
\* exception goes on to the caller.
C6_ExceptionRecordedAndReraised ==
    /\ IsSet(exc) => (pc \in {"except", "raised"} /\ ret = None)
    /\ Succeeded => ~IsSet(exc)
    /\ (pc = "raised" /\ InLog("plant"))
         => /\ IsSet(exc) /\ Get(exc).at \in DriverLines
            /\ jobrec.success = FALSE
            /\ jobrec.error = Some([error_type |-> Get(exc).type,
                                    error_message |-> TracebackText(Get(exc))])

\* run_json has re-raised an exception of harvest that is no UnknownError.
C6_Witness ==
    /\ pc = "raised"
    /\ InLog("harvest")
    /\ exc = Some(Exc("IndexError", 242))
    /\ Get(jobrec.error).error_type = "IndexError"

\* C7: for every successful request with driver energy, return_result, the
\* CURRENT ENERGY entry, the DISPERSION CORRECTION ENERGY entry and
\* properties.return_energy are one value: the energy read from stdout.
C7_EnergyAgree ==
    (Succeeded /\ jobrec.driver = "energy")
    => /\ jobrec.return_result = Some(EnergyRead(Out))
       /\ jobrec.qcvars[CurrentEnergy] = EnergyRead(Out)
       /\ jobrec.qcvars[DCE] = EnergyRead(Out)
       /\ jobrec.properties = Some([return_energy |-> EnergyRead(Out)])

\* An energy request came back with the energy of stdout's energy line.
C7_Witness ==
    /\ pc = "returned"
    /\ jobrec.driver = "energy"
    /\ jobrec.return_result = Some(-1234)
    /\ Out = <<VersionLine, EnergyLine, CoordsLine>>

\* C8: within one run_json call the orchestrator's stamp is the first thing
\* written and it stays until harvest, at its very end, replaces it: the
\* record holds the caller's provenance before the call, the orchestrator's
\* from the stamp until harvest has finished, and the harvester's (creator
\* mp2d, routine mp2d_harvest) from then on, so in every successful result;
\* a record whose call failed after the stamp keeps the orchestrator's.
C8_ProvenanceOrder ==
    /\ ~InLog("stamp") => jobrec.provenance = CallerProvenance
    /\ (InLog("stamp") /\ pc \notin {"finish", "result", "returned"})
         => jobrec.provenance = OrchestratorProvenance
    /\ pc \in {"finish", "result", "returned"}
         => /\ jobrec.provenance.creator = "mp2d"
            /\ jobrec.provenance.routine = "mp2d_harvest"
            /\ InLog("harvest")
    /\ \A i, j \in 1..Len(log) :
         (log[i] = "stamp" /\ log[j] \in {"plant", "execute", "harvest"}) => i < j

\* A successful result carries the harvester's provenance.
C8_Witness ==
    /\ pc = "returned"
    /\ jobrec.provenance.creator = "mp2d"
    /\ InLog("stamp")

\* A stdout on which the scan binds the energy and ends at the coordinates
\* marker, without ever matching the version line.
EnergyButNoVersion(out) ==
    LET st == ScanFrom(out, 1, ScanStart)
    IN ~IsSet(st.version) /\ IsSet(st.ene) /\ ~IsSet(st.exc) /\ ~st.exhausted

\* C9: when the scan matched the energy line but never the version line,
\* harvest completes without error and the provenance it leaves has no
\* version.
C9_NoVersionNoError ==
    (AfterHarvest /\ EnergyButNoVersion(Out)
        /\ (jobrec.driver = "gradient" => IsSet(GradFile)))
    => /\ ~IsSet(exc)
       /\ jobrec.provenance.creator = "mp2d"
       /\ jobrec.provenance.version = None

\* The version the program at a path reports.
VersionAt(p) == SafeVersion(VersionStdout(p))

\* C10, the states: a call runs the program only if it found no entry when
\* it checked; a call begun after some call for its path had returned does
\* not run the program; every call returns the version of its path; an
\* entry holds the version of its path, and is there once a call for the
\* path has written it or returned.
C10_CacheStates ==
    /\ \A t \in Threads :
         /\ th[t].ran => th[t].miss
         /\ th[t].pc \in {"run", "store"} => th[t].miss
         /\ th[t].after => (~th[t].ran /\ th[t].pc \notin {"run", "store"})
         /\ IsSet(th[t].ret) => Get(th[t].ret).value = VersionAt(Get(th[t].ret).path)
    /\ \A p \in Paths :
         /\ IsSet(version_cache[p]) => version_cache[p] = Some(VersionAt(p))
         /\ p \in returned => version_cache[p] = Some(VersionAt(p))

\* C10: under any interleaving of get_version calls the states are as
\* C10_CacheStates says, and an entry, once written, is never removed nor
\* changed.
C10_VersionCache ==
    /\ []C10_CacheStates
    /\ [][\A p \in Paths : IsSet(version_cache[p]) => version_cache'[p] = version_cache[p]]_vars

\* Two calls raced on the empty entry of one path, both ran the program and
\* both returned its version.
C10_Witness ==
    /\ th[1].ran /\ th[2].ran
    /\ IsSet(th[1].ret) /\ IsSet(th[2].ret)
    /\ Get(th[1].ret).path = Get(th[2].ret).path
    /\ th[1].calls = 1 /\ th[2].calls = 1
    /\ th[1].pc = "idle" /\ th[2].pc = "idle"

====
